---- MODULE Spec2Model ----
(***************************************************************************)
(* Rora agent: the generation pipeline (agent/graph.py) and the JSON-RPC   *)
(* stdio server (server.py).                                               *)
(*                                                                         *)
(* The specifications of this module:                                      *)
(*   Spec        the runs of generate_tests_for_function (the LangGraph     *)
(*               pipeline analyze -> gather -> generate -> validate)       *)
(*   ServerSpec  the main loop of server.py over a framed input stream     *)
(***************************************************************************)
EXTENDS Integers, Sequences, FiniteSets, TLC

(***************************************************************************)
(* Text is modelled as a sequence of tokens:                               *)
(*   "F"  a fence ```            "P"  the word python                      *)
(*   "W"  a newline              "G"  a valid statement  (assert True)     *)
(*   "I"  the line  import os    "B"  a broken statement (def f(:)         *)
(***************************************************************************)

\* ---------------------------------------------------------------- bounds
\* number of frames on stdin before end-of-stream
MaxFrames == 2
\* number of lines the test runner prints
MaxLines == 2
\* number of test cases in a structured report
MaxTests == 2
\* number of generate_tests calls one process handles
MaxRuns == 2
\* length of the runner's longest output
LongLen == 501

\* default recursion limit of graph.invoke(initial_state) (no config passed)
RecursionLimit == 25

VARIABLES
    \* ---- pipeline (TestGenerationState and the run around it)
    api_key,            \* os.environ["GEMINI_API_KEY"] is set
    func_name,          \* params.function_info.get("name")
    node,               \* next node to run / END / raised / returned
    step,               \* supersteps executed by graph.invoke
    project_context,
    import_analysis,
    generated_code,
    validation_result,
    validation_error,
    retry_count,
    exc,                \* exception propagating out of graph.invoke
    result,             \* return value of generate_tests_for_function
    \* ---- pipeline history (observers, not program state)
    llm_calls,          \* number of llm.invoke calls
    gen_steps,          \* number of executions of generate_tests_node
    answers,            \* kinds of code the model produced so far
    response_content,   \* raw text of the model's last response
    prompt,             \* the last prompt built for the model
    earlier_runs,       \* the retry counters the earlier calls of this process ended with
    last_step,          \* which branch the last node took
    analyze_count,      \* number of executions of analyze_function_node
    gather_count,       \* number of executions of gather_context_node
    \* ---- server
    stream,             \* tokens of stdin
    pos,                \* read position in stream (1-based, next token)
    pc,                 \* "read" | "handle" | "stopped"
    cur,                \* message being handled
    responses,          \* envelopes written to stdout, in order
    log,                \* lines written to stderr, in order
    dispatched,         \* ids passed to handle_request, in order
    stop_cause,         \* why the loop ended
    invoked,            \* handlers called by handle_request, in order
    last_raise,         \* message of the exception raised in the last handle_request
    wire,               \* write and flush calls on stdout, in order
    syntax_check,       \* code and result of the last validate_syntax call
    \* ---- test-execution harness (pytest_runner.py)
    entry,              \* "run_pytest" | "run_pytest_with_json_report"
    path_exists,        \* Path(test_path).exists()
    hpc,                \* position in the entry point
    report_file,        \* the temporary report file: state and content
    child,              \* the pytest child process
    proc,               \* CompletedProcess: stdout, stderr, returncode
    run_result,         \* value returned (after the finally clause has run)
    spawned,            \* number of child processes started
    tmp_created         \* number of temporary files created

pipe_vars == <<api_key, func_name, node, step, project_context, import_analysis,
               generated_code, validation_result, validation_error, retry_count,
               exc, result, llm_calls, gen_steps, answers, response_content, prompt, earlier_runs, last_step,
               analyze_count, gather_count>>
server_vars == <<stream, pos, pc, cur, responses, log, dispatched, stop_cause,
                 invoked, last_raise, wire, syntax_check>>
harness_vars == <<entry, path_exists, hpc, report_file, child, proc, run_result,
                  spawned, tmp_created>>
vars == <<pipe_vars, server_vars, harness_vars>>

\* ------------------------------------------------------------ values
None == "None"
NoneCode == <<"None">>
Msg(text, line) == [text |-> text, line |-> line]
NoneMsg == Msg("None", 0)
NoCodeGenerated == Msg("No code generated", 0)
RecursionMsg == Msg("Recursion limit reached without hitting a stop condition", 0)
ModelFailure == Msg("model call failed", 0)
ContextFailure == Msg("context gathering failed", 0)
GraphFailure == Msg("graph construction failed", 0)
\* no message
NoBody == [kind |-> "none", id |-> None, method |-> "", params |-> "dict"]
NoneResult == [isNone |-> TRUE, valid |-> FALSE, error |-> NoneMsg]

\* ------------------------------------------------------------ harness values
\* RunResult.error: absent, or one of the messages of pytest_runner.py
NoErr == [kind |-> "none", text |-> <<>>]
Err(kind, text) == [kind |-> kind, text |-> text]
RunResult(outcomes, total, passed, failed, error) ==
    [outcomes |-> outcomes, total |-> total, passed |-> passed, failed |-> failed,
     error |-> error]
ErrorResult(error) == RunResult(<<>>, 0, 0, 0, error)
NoResult == RunResult(<<>>, 0, 0, 0, Err("unset", <<>>))
NoProc == [stdout |-> <<>>, stderr |-> <<>>, returncode |-> 0]
\* a key that is not present in a JSON object
Absent == -1
NoSummary == [total |-> Absent, passed |-> Absent, failed |-> Absent, error |-> Absent]
NoReport == [tests |-> <<>>, summary |-> NoSummary]
NoFile == [state |-> "none", content |-> "none", report |-> NoReport]

HarnessIdle ==
    /\ entry = "none"
    /\ path_exists = "False"
    /\ hpc = "idle"
    /\ report_file = NoFile
    /\ child = "none"
    /\ proc = NoProc
    /\ run_result = NoResult
    /\ spawned = 0
    /\ tmp_created = 0

\* ------------------------------------------------------------ text helpers
RECURSIVE lstrip(_)
lstrip(s) == IF s # <<>> /\ Head(s) = "W" THEN lstrip(Tail(s)) ELSE s

RECURSIVE rstrip(_)
rstrip(s) == IF s # <<>> /\ s[Len(s)] = "W" THEN rstrip(SubSeq(s, 1, Len(s) - 1)) ELSE s

strip(s) == rstrip(lstrip(s))

\* str.find(fence, start): index of the first fence at or after start, 0 if none
FindFence(s, start) ==
    LET hits == {i \in start..Len(s) : s[i] = "F"}
    IN IF hits = {} THEN 0 ELSE CHOOSE i \in hits : \A j \in hits : i <= j

\* str.find("```python"): index of the first fence directly followed by python
FindTagged(s) ==
    LET hits == {i \in 1..(Len(s) - 1) : s[i] = "F" /\ s[i + 1] = "P"}
    IN IF hits = {} THEN 0 ELSE CHOOSE i \in hits : \A j \in hits : i <= j

extract_code_from_response(content) ==
    LET t == FindTagged(content)
        tstart == t + 2
        tend == FindFence(content, tstart)
        u == FindFence(content, 1)
        ustart == u + 1
        uend == FindFence(content, ustart)
    IN IF t # 0 /\ tend > tstart
         THEN strip(SubSeq(content, tstart, tend - 1))
       ELSE IF u # 0 /\ uend > ustart
         THEN strip(SubSeq(content, ustart, uend - 1))
       ELSE strip(content)

\* the lines of a text (split on newline)
RECURSIVE Lines(_)
Lines(s) ==
    LET nl == {i \in 1..Len(s) : s[i] = "W"}
    IN IF nl = {} THEN <<s>>
       ELSE LET k == CHOOSE i \in nl : \A j \in nl : i <= j
            IN <<SubSeq(s, 1, k - 1)>> \o Lines(SubSeq(s, k + 1, Len(s)))

ValidLine(l) == l \in {<<>>, <<"G">>, <<"I">>, <<"P">>}

\* ast.parse(code): ok, or SyntaxError with the line of the first bad line
ast_parse(code) ==
    LET ls == Lines(code)
        bad == {i \in 1..Len(ls) : ~ValidLine(ls[i])}
    IN IF bad = {} THEN [ok |-> TRUE, lineno |-> 0]
       ELSE [ok |-> FALSE, lineno |-> CHOOSE i \in bad : \A j \in bad : i <= j]

RECURSIVE ImportsOf(_)
ImportsOf(ls) ==
    IF ls = <<>> THEN <<>>
    ELSE (IF Head(ls) = <<"I">> THEN <<"import os">> ELSE <<>>) \o ImportsOf(Tail(ls))

\* an extractor that finds no import statement
extract_imports_none(code) == <<>>

extract_imports_from_code(code) ==
    IF ast_parse(code).ok THEN ImportsOf(Lines(code)) ELSE <<>>

TestName(name) ==
    IF name = None THEN "test_unknown"
    ELSE IF name = "add" THEN "test_add"
    ELSE "test_sub"

\* raw texts the model may answer with
LLMResponses == {
    <<"F", "P", "W", "G", "W", "F">>,
    <<"F", "P", "W", "I", "W", "G", "W", "F">>,
    <<"F", "P", "W", "B", "W", "F">>,
    <<"F", "P", "W", "G", "W", "B", "W", "F">>,
    <<"F", "W", "B", "W", "F">>,
    <<"W", "G", "W">>,
    <<"F", "P", "F">>,
    <<"F", "P", "W", "F">>,
    <<"F", "W", "B", "W", "F", "W", "F", "P", "W", "G", "W", "F">>,
    <<"G", "W", "F", "W", "I", "W", "F">>,
    <<"W">>,
    <<>> }

CodeKind(code) ==
    IF code = <<>> THEN "empty" ELSE IF ast_parse(code).ok THEN "valid" ELSE "invalid"

\* ---- validate_syntax
\* the result of validate_python_syntax: the keys of the dict and their values
SyntaxResult(valid, keys, error, line) ==
    [valid |-> valid, keys |-> keys, error |-> error, line |-> line]

NoCheck == [code |-> NoneCode, result |-> SyntaxResult(FALSE, {}, "", 0)]

\* params.get("code", "") of the validate_syntax requests
Codes == {<<>>, <<"G">>, <<"P">>, <<"B">>, <<"G", "W", "B">>, <<"I", "W", "G", "W", "B", "W", "B">>}

\* a validator that reports the first line for every syntax error
validate_python_syntax_line1(code) ==
    IF ast_parse(code).ok THEN SyntaxResult(TRUE, {"valid"}, "", 0)
    ELSE SyntaxResult(FALSE, {"valid", "error", "line"}, "invalid syntax", 1)

\* server.py 59-70
validate_python_syntax(code) ==
    LET p == ast_parse(code)
    IN IF p.ok THEN SyntaxResult(TRUE, {"valid"}, "", 0)
       ELSE SyntaxResult(FALSE, {"valid", "error", "line"}, "invalid syntax", p.lineno)

\* ------------------------------------------------------------ pipeline
\* no prompt has been built
NoPrompt == [built |-> FALSE, retry_context |-> NoneMsg]

\* prompts.py 64-73: the retry context of the prompt
get_test_generation_prompt(retry, previous_error) ==
    [built |-> TRUE,
     retry_context |-> IF retry > 0 /\ previous_error # NoneMsg THEN previous_error ELSE NoneMsg]

\* should_retry with the cap off by one
should_retry_cap3(validation, rc) ==
    IF validation.valid THEN "done"
    ELSE IF rc < 3 THEN "retry"
    ELSE "done"

\* should_retry that does not look at the validation result
should_retry_unchecked(validation, rc) ==
    IF rc < 2 THEN "retry" ELSE "done"

should_retry(validation, rc) ==
    IF validation.valid THEN "done"
    ELSE IF rc < 2 THEN "retry"
    ELSE "done"

PipeInit ==
    /\ api_key \in BOOLEAN
    /\ func_name \in {"add", "sub", None}
    /\ node = "create_graph"
    /\ step = 0
    /\ project_context = "empty"
    /\ import_analysis = "empty"
    /\ generated_code = NoneCode
    /\ validation_result = NoneResult
    /\ validation_error = NoneMsg
    /\ retry_count = 0
    /\ exc = NoneMsg
    /\ result = [set |-> FALSE, test_code |-> <<>>, test_function_name |-> "",
                 imports |-> <<>>, error |-> NoneMsg]
    /\ llm_calls = 0
    /\ gen_steps = 0
    /\ answers = {}
    /\ response_content = NoneCode
    /\ prompt = NoPrompt
    /\ earlier_runs = <<>>
    /\ last_step = "start"
    /\ analyze_count = 0
    /\ gather_count = 0

ServerIdle ==
    /\ stream = <<>>
    /\ pos = 1
    /\ pc = "idle"
    /\ cur = NoBody
    /\ responses = <<>>
    /\ log = <<>>
    /\ dispatched = <<>>
    /\ stop_cause = None
    /\ invoked = <<>>
    /\ last_raise = ""
    /\ wire = <<>>
    /\ syntax_check = NoCheck

Running == node \in {"analyze_function", "gather_context", "generate_tests", "validate_code"}

\* graph.py 183: the graph is built before the try block is entered
create_test_generation_graph ==
    /\ UNCHANGED <<server_vars, harness_vars>>
    /\ node = "create_graph"
    /\ node' = "analyze_function"
    /\ last_step' = "create_graph"
    /\ UNCHANGED <<analyze_count, gather_count, api_key, func_name, step, project_context,
                   import_analysis, generated_code, validation_result, validation_error,
                   retry_count, exc, result, llm_calls, gen_steps, answers, response_content, prompt, earlier_runs>>

\* graph.py 183: building the graph raises; there is no handler around it
CreateGraphRaises ==
    /\ UNCHANGED <<server_vars, harness_vars>>
    /\ node = "create_graph"
    /\ exc' = GraphFailure
    /\ node' = "propagated"
    /\ last_step' = "create_graph_raise"
    /\ UNCHANGED <<analyze_count, gather_count, api_key, func_name, step, project_context,
                   import_analysis, generated_code, validation_result, validation_error,
                   retry_count, result, llm_calls, gen_steps, answers, response_content, prompt, earlier_runs>>

\* a conditional edge that sends a retry back to context gathering
RetryTargetGather == "gather_context"

\* graph.py 37: "retry": "generate_tests"
RetryTarget == "generate_tests"

analyze_function_node ==
    /\ UNCHANGED <<server_vars, harness_vars>>
    /\ node = "analyze_function"
    /\ step < RecursionLimit
    /\ import_analysis' = "analysis"
    /\ analyze_count' = analyze_count + 1
    /\ node' = "gather_context"
    /\ step' = step + 1
    /\ last_step' = "analyze"
    /\ UNCHANGED <<gather_count, api_key, func_name, project_context, generated_code, validation_result,
                   validation_error, retry_count, exc, result, llm_calls, gen_steps, answers, response_content, prompt, earlier_runs>>

gather_context_node ==
    /\ UNCHANGED <<server_vars, harness_vars>>
    /\ node = "gather_context"
    /\ step < RecursionLimit
    /\ project_context' = "context"
    /\ gather_count' = gather_count + 1
    /\ node' = "generate_tests"
    /\ step' = step + 1
    /\ last_step' = "gather"
    /\ UNCHANGED <<analyze_count, api_key, func_name, import_analysis, generated_code, validation_result,
                   validation_error, retry_count, exc, result, llm_calls, gen_steps, answers, response_content, prompt, earlier_runs>>

\* gather_project_context raises (an unreadable directory under project_root)
GatherRaises ==
    /\ UNCHANGED <<server_vars, harness_vars>>
    /\ node = "gather_context"
    /\ step < RecursionLimit
    /\ gather_count' = gather_count + 1
    /\ exc' = ContextFailure
    /\ node' = "raised"
    /\ step' = step + 1
    /\ last_step' = "gather_raise"
    /\ UNCHANGED <<analyze_count, api_key, func_name, project_context, import_analysis,
                   generated_code, validation_result, validation_error, retry_count, result,
                   llm_calls, gen_steps, answers, response_content, prompt, earlier_runs>>

\* no credential: {"generated_code": "", "error": ...}; "error" is not a key
\* of TestGenerationState, so only generated_code reaches the state
GenerateNoKey ==
    /\ UNCHANGED <<server_vars, harness_vars>>
    /\ node = "generate_tests"
    /\ step < RecursionLimit
    /\ ~api_key
    /\ generated_code' = <<>>
    /\ gen_steps' = gen_steps + 1
    /\ node' = "validate_code"
    /\ step' = step + 1
    /\ last_step' = "generate_nokey"
    /\ UNCHANGED <<analyze_count, gather_count, api_key, func_name, project_context, import_analysis, validation_result,
                   validation_error, retry_count, exc, result, llm_calls, answers, response_content, prompt, earlier_runs>>

GenerateLLM ==
    /\ UNCHANGED <<server_vars, harness_vars>>
    /\ node = "generate_tests"
    /\ step < RecursionLimit
    /\ api_key
    /\ prompt' = get_test_generation_prompt(retry_count, validation_error)
    /\ UNCHANGED earlier_runs
    /\ \E text \in LLMResponses :
         /\ response_content' = text
         /\ generated_code' = extract_code_from_response(text)
         /\ answers' = answers \cup {CodeKind(extract_code_from_response(text))}
    /\ llm_calls' = llm_calls + 1
    /\ gen_steps' = gen_steps + 1
    /\ node' = "validate_code"
    /\ step' = step + 1
    /\ last_step' = "generate_llm"
    /\ UNCHANGED <<analyze_count, gather_count, api_key, func_name, project_context, import_analysis, validation_result,
                   validation_error, retry_count, exc, result>>

\* llm.invoke raises: the exception leaves graph.invoke
GenerateRaises ==
    /\ UNCHANGED <<server_vars, harness_vars>>
    /\ node = "generate_tests"
    /\ step < RecursionLimit
    /\ api_key
    /\ llm_calls' = llm_calls + 1
    /\ gen_steps' = gen_steps + 1
    /\ answers' = answers \cup {"raise"}
    /\ prompt' = get_test_generation_prompt(retry_count, validation_error)
    /\ UNCHANGED <<response_content, earlier_runs>>
    /\ exc' = ModelFailure
    /\ node' = "raised"
    /\ step' = step + 1
    /\ last_step' = "generate_raise"
    /\ UNCHANGED <<analyze_count, gather_count, api_key, func_name, project_context, import_analysis, generated_code,
                   validation_result, validation_error, retry_count, result>>

\* validate_code_node followed by the conditional edge should_retry
\* graph.py 112-130: the update validate_code_node returns for the code
validate_code(code, retry) ==
    LET p == ast_parse(code)
    IN IF code = <<>> \/ code = NoneCode
         THEN [vr |-> [isNone |-> FALSE, valid |-> FALSE, error |-> NoCodeGenerated],
               ve |-> NoCodeGenerated, rc |-> retry, br |-> "validate_empty"]
       ELSE IF p.ok
         THEN [vr |-> [isNone |-> FALSE, valid |-> TRUE, error |-> NoneMsg],
               ve |-> NoneMsg, rc |-> retry, br |-> "validate_ok"]
       ELSE [vr |-> [isNone |-> FALSE, valid |-> FALSE,
                     error |-> Msg("invalid syntax (<unknown>)", p.lineno)],
             ve |-> Msg("Syntax error: invalid syntax", p.lineno),
             rc |-> retry + 1, br |-> "validate_syntax_error"]

validate_code_node ==
    /\ UNCHANGED <<server_vars, harness_vars>>
    /\ node = "validate_code"
    /\ step < RecursionLimit
    /\ LET upd == validate_code(generated_code, retry_count)
       IN /\ validation_result' = upd.vr
          /\ validation_error' = upd.ve
          /\ retry_count' = upd.rc
          /\ last_step' = upd.br
          /\ node' = IF should_retry(upd.vr, upd.rc) = "retry" THEN RetryTarget ELSE "END"
    /\ step' = step + 1
    /\ UNCHANGED <<analyze_count, gather_count, api_key, func_name, project_context, import_analysis, generated_code,
                   exc, result, llm_calls, gen_steps, answers, response_content, prompt, earlier_runs>>

\* graph.invoke stops with GraphRecursionError when the limit is used up
GraphRecursion ==
    /\ UNCHANGED <<server_vars, harness_vars>>
    /\ Running
    /\ step >= RecursionLimit
    /\ exc' = RecursionMsg
    /\ node' = "raised"
    /\ last_step' = "recursion"
    /\ UNCHANGED <<analyze_count, gather_count, api_key, func_name, step, project_context, import_analysis, generated_code,
                   validation_result, validation_error, retry_count, result, llm_calls,
                   gen_steps, answers, response_content, prompt, earlier_runs>>

FailureShape(err) ==
    [set |-> TRUE, test_code |-> <<>>, test_function_name |-> "", imports |-> <<>>,
     error |-> err]

\* graph.py 202-224: the graph reached END
ReturnResult ==
    /\ UNCHANGED <<server_vars, harness_vars>>
    /\ node = "END"
    /\ result' = IF ~validation_result.valid /\ (generated_code = <<>> \/ generated_code = NoneCode)
                   THEN FailureShape(validation_error)
                 ELSE [set |-> TRUE, test_code |-> generated_code,
                       test_function_name |-> TestName(func_name),
                       imports |-> extract_imports_from_code(generated_code),
                       error |-> NoneMsg]
    /\ node' = "returned"
    /\ last_step' = "return"
    /\ UNCHANGED <<analyze_count, gather_count, api_key, func_name, step, project_context, import_analysis, generated_code,
                   validation_result, validation_error, retry_count, exc, llm_calls,
                   gen_steps, answers, response_content, prompt, earlier_runs>>

\* graph.py 226-232: except Exception
ReturnException ==
    /\ UNCHANGED <<server_vars, harness_vars>>
    /\ node = "raised"
    /\ result' = FailureShape(exc)
    /\ node' = "returned"
    /\ last_step' = "except"
    /\ UNCHANGED <<analyze_count, gather_count, api_key, func_name, step, project_context, import_analysis, generated_code,
                   validation_result, validation_error, retry_count, exc, llm_calls,
                   gen_steps, answers, response_content, prompt, earlier_runs>>

\* the state of an earlier call, handed to the next one
initial_state_reused ==
    [project_context |-> "empty", import_analysis |-> "empty",
     generated_code |-> generated_code, validation_result |-> validation_result,
     validation_error |-> validation_error, retry_count |-> retry_count]

\* graph.py 185-197
initial_state ==
    [project_context |-> "empty", import_analysis |-> "empty",
     generated_code |-> NoneCode, validation_result |-> NoneResult,
     validation_error |-> NoneMsg, retry_count |-> 0]

\* the next call in the same process: graph.py 183-197. The environment
\* (the credential) stays; the request names its own function.
generate_tests_for_function ==
    /\ UNCHANGED <<server_vars, harness_vars>>
    /\ node \in {"returned", "propagated"}
    /\ Len(earlier_runs) < MaxRuns - 1
    /\ earlier_runs' = Append(earlier_runs, [retry_count |-> retry_count])
    /\ func_name' \in {"add", "sub", None}
    /\ node' = "create_graph"
    /\ step' = 0
    /\ project_context' = initial_state.project_context
    /\ import_analysis' = initial_state.import_analysis
    /\ generated_code' = initial_state.generated_code
    /\ validation_result' = initial_state.validation_result
    /\ validation_error' = initial_state.validation_error
    /\ retry_count' = initial_state.retry_count
    /\ exc' = NoneMsg
    /\ result' = [set |-> FALSE, test_code |-> <<>>, test_function_name |-> "",
                  imports |-> <<>>, error |-> NoneMsg]
    /\ llm_calls' = 0
    /\ gen_steps' = 0
    /\ answers' = {}
    /\ response_content' = NoneCode
    /\ prompt' = NoPrompt
    /\ last_step' = "start"
    /\ analyze_count' = 0
    /\ gather_count' = 0
    /\ UNCHANGED api_key

Next ==
    \/ generate_tests_for_function
    \/ create_test_generation_graph
    \/ CreateGraphRaises
    \/ GatherRaises
    \/ analyze_function_node
    \/ gather_context_node
    \/ GenerateNoKey
    \/ GenerateLLM
    \/ GenerateRaises
    \/ validate_code_node
    \/ GraphRecursion
    \/ ReturnResult
    \/ ReturnException

Init == PipeInit /\ ServerIdle /\ HarnessIdle
Spec == Init /\ [][Next]_vars

\* ------------------------------------------------------------ server
\* a dispatch table that sends a request without a method to a handler
KnownMethodsDefault == {"parse_file", "generate_tests", "run_tests", "validate_syntax", ""}

\* server.py 30-46: the methods handle_request has a branch for
KnownMethods == {"parse_file", "generate_tests", "run_tests", "validate_syntax"}
\* "b_gus" is a name with a letter outside ASCII in the place of "_"
Methods == KnownMethods \cup {"bogus", "b_gus", ""}
Ids == {"1", "2", None}
MethodNotFound == -32601
\* an internal error reported under the code of an unknown method
InternalErrorWrong == MethodNotFound
InternalError == -32603

Object(id, method, params) == [kind |-> "object", id |-> id, method |-> method, params |-> params]
Garbage == [kind |-> "garbage", id |-> None, method |-> "", params |-> "dict"]
Null == [kind |-> "null", id |-> None, method |-> "", params |-> "dict"]
Array == [kind |-> "array", id |-> None, method |-> "", params |-> "dict"]

\* tokens of stdin: a Content-Length line, another header line, the empty
\* line, and a body (text without a line end)
HdrLine(c) == [t |-> "hdr", cl |-> c, body |-> NoBody]
OtherLine == [t |-> "other", cl |-> "", body |-> NoBody]
BlankLine == [t |-> "blank", cl |-> "", body |-> NoBody]
BodyText(b) == [t |-> "body", cl |-> "", body |-> b]

Requests ==
    {Object(i, m, "dict") : i \in Ids, m \in Methods}
        \cup {Object("1", "validate_syntax", "list")}

\* a frame: a header block, the empty line, the body. cl = "len" is the
\* decimal length of the body that follows
Frame(c, b) ==
    <<IF c = "missing" THEN OtherLine ELSE HdrLine(c), BlankLine>>
        \o (IF b = NoBody THEN <<>> ELSE <<BodyText(b)>>)

Frames ==
    {Frame("len", b) : b \in Requests \cup {Garbage, Null, Array}}
        \cup {Frame(c, b) : c \in {"missing", "0", "abc", "-1"},
                            b \in {NoBody, Object("2", "validate_syntax", "dict")}}

RECURSIVE Streams(_)
Streams(n) ==
    IF n = 0 THEN {<<>>}
    ELSE Streams(n - 1) \cup {f \o s : f \in Frames, s \in Streams(n - 1)}

\* sys.stdin.readline(): up to and including the next line end
ReadLine(s, p) ==
    IF p > Len(s) THEN [kind |-> "eof", cl |-> "", pos |-> p]
    ELSE LET ends == {i \in p..Len(s) : s[i].t # "body"}
         IN IF ends = {} THEN [kind |-> "junk", cl |-> "", pos |-> Len(s) + 1]
            ELSE LET k == CHOOSE i \in ends : \A j \in ends : i <= j
                 IN IF k = p THEN [kind |-> s[p].t, cl |-> s[p].cl, pos |-> p + 1]
                    ELSE [kind |-> "junk", cl |-> "", pos |-> k + 1]

\* server.py 76-86: the header loop; cl is headers.get("Content-Length")
RECURSIVE ReadHeaders(_, _, _)
ReadHeaders(s, p, cl) ==
    LET l == ReadLine(s, p)
    IN IF l.kind = "eof" THEN [kind |-> "eof", cl |-> cl, pos |-> l.pos]
       ELSE IF l.kind = "blank" THEN [kind |-> "headers", cl |-> cl, pos |-> l.pos]
       ELSE IF l.kind = "hdr" THEN ReadHeaders(s, l.pos, l.cl)
       ELSE ReadHeaders(s, l.pos, cl)

\* json.loads(content)
json_loads(content) ==
    IF Len(content) = 1 /\ content[1].t = "body" /\ content[1].body.kind # "garbage"
      THEN [out |-> content[1].body.kind, msg |-> content[1].body]
    ELSE [out |-> "JSONDecodeError", msg |-> NoBody]

read_message(s, p) ==
    LET h == ReadHeaders(s, p, "missing")
    IN IF h.kind = "eof"
         THEN [out |-> "None", cause |-> "eof", msg |-> NoBody, pos |-> h.pos]
       ELSE IF h.cl \in {"missing", "0"}
         THEN [out |-> "None", cause |-> "zero_length", msg |-> NoBody, pos |-> h.pos]
       ELSE IF h.cl = "abc"
         THEN [out |-> "ValueError", cause |-> None, msg |-> NoBody, pos |-> h.pos]
       ELSE LET n == IF h.cl = "-1" THEN Len(s) - h.pos + 1
                     ELSE IF h.pos <= Len(s) /\ s[h.pos].t = "body" THEN 1 ELSE 0
                j == json_loads(SubSeq(s, h.pos, h.pos + n - 1))
            IN IF j.out = "null"
                 THEN [out |-> "None", cause |-> "null_body", msg |-> NoBody, pos |-> h.pos + n]
               ELSE [out |-> j.out, cause |-> None, msg |-> j.msg, pos |-> h.pos + n]

\* error objects: {"code": ..., "message": ...}; NoError is error=None
NoError == [code |-> 0, text |-> "", arg |-> ""]
ErrorObject(code, text, arg) == [code |-> code, text |-> text, arg |-> arg]

\* send_response that does not carry the request's id
send_response_noid(id, res, error) ==
    IF error # NoError
      THEN [id |-> None, kind |-> "error", code |-> error.code,
            message |-> [text |-> error.text, arg |-> error.arg]]
    ELSE [id |-> None, kind |-> "result", code |-> 0, message |-> [text |-> "", arg |-> ""]]

\* a writer that puts the new frame in front of what is already written
stdout_write_front(out, envelope) == <<envelope>> \o out

\* a writer that gives no answer to a message without id
stdout_write_requests_only(out, envelope) ==
    IF envelope.id = None THEN out ELSE Append(out, envelope)

\* sys.stdout.write(frame); sys.stdout.flush()
stdout_write(out, envelope) == Append(out, envelope)

\* except clauses that end the loop on a decode error
on_exception_break(out) ==
    IF out = "JSONDecodeError" THEN [log |-> "JSON decode error", pc |-> "stopped"]
    ELSE [log |-> "Server error", pc |-> "read"]

\* server.py 115-120: the except clauses of the loop
on_exception(out) ==
    IF out = "JSONDecodeError" THEN [log |-> "JSON decode error", pc |-> "read"]
    ELSE [log |-> "Server error", pc |-> "read"]

\* ---- the frame of a response
\* the characters of a text: "a" is an ASCII character, "u" a character
\* outside ASCII. A text without letters outside ASCII is abbreviated to
\* one ASCII character, the empty text to nothing.
StrChars(text) ==
    CASE text = "" -> <<>>
      [] text = "b_gus" -> <<"a", "u", "a", "a", "a">>
      [] OTHER -> <<"a">>

\* json.dumps escapes a character outside ASCII as \uXXXX, six ASCII characters
RECURSIVE Escaped(_)
Escaped(chars) ==
    IF chars = <<>> THEN <<>>
    ELSE (IF Head(chars) = "u" THEN <<"a", "a", "a", "a", "a", "a">> ELSE <<Head(chars)>>)
           \o Escaped(Tail(chars))

\* the bytes stdout's encoding (UTF-8) gives for the characters: "b" is a byte
RECURSIVE Encoded(_)
Encoded(chars) ==
    IF chars = <<>> THEN <<>>
    ELSE (IF Head(chars) = "u" THEN <<"b", "b">> ELSE <<"b">>) \o Encoded(Tail(chars))

\* the keys of the response object
ResponseKeys(envelope) ==
    {"jsonrpc", "id"} \cup (IF envelope.kind = "error" THEN {"error"} ELSE {"result"})

\* json.dumps that leaves characters outside ASCII as they are
json_dumps_raw(envelope) ==
    <<"a", "a">> \o StrChars(envelope.message.text) \o StrChars(envelope.message.arg)

\* server.py 21: json.dumps(response), the characters of the body; the
\* braces, keys, id and numbers are ASCII and stand as two characters
json_dumps(envelope) ==
    <<"a", "a">> \o Escaped(StrChars(envelope.message.text))
                 \o Escaped(StrChars(envelope.message.arg))

\* server.py 23: one write of header, empty line and body; length is the
\* number in the header, body the bytes after the empty line, tail what
\* follows the body in the same write
WriteCall(envelope) ==
    [op |-> "write", length |-> Len(json_dumps(envelope)),
     body |-> Encoded(json_dumps(envelope)), tail |-> <<>>,
     keys |-> ResponseKeys(envelope)]

\* server.py 24
FlushCall == [op |-> "flush", length |-> 0, body |-> <<>>, tail |-> <<>>, keys |-> {}]

send_response(id, res, error) ==
    IF error # NoError
      THEN [id |-> id, kind |-> "error", code |-> error.code,
            message |-> [text |-> error.text, arg |-> error.arg]]
    ELSE [id |-> id, kind |-> "result", code |-> 0, message |-> [text |-> "", arg |-> ""]]

\* the server at start-up, stdin holding one of the given streams
ServerStart(streams) ==
    /\ PipeInit
    /\ api_key = FALSE
    /\ func_name = None
    /\ HarnessIdle
    /\ stream \in streams
    /\ pos = 1
    /\ pc = "read"
    /\ cur = NoBody
    /\ responses = <<>>
    /\ log = <<>>
    /\ dispatched = <<>>
    /\ stop_cause = None
    /\ invoked = <<>>
    /\ last_raise = ""
    /\ wire = <<>>
    /\ syntax_check = NoCheck

ServerInit == ServerStart(Streams(MaxFrames))

\* one frame for each way read_message and handle_request can go
LiveFrames ==
    {Frame("len", Object("1", "run_tests", "dict")),
     Frame("len", Object(None, "bogus", "dict")),
     Frame("len", Object("2", "validate_syntax", "list")),
     Frame("len", Garbage), Frame("len", Null), Frame("len", Array),
     Frame("0", NoBody), Frame("missing", NoBody),
     Frame("abc", Object("2", "validate_syntax", "dict")),
     Frame("-1", Object("2", "validate_syntax", "dict"))}

RECURSIVE LiveStreams(_)
LiveStreams(n) ==
    IF n = 0 THEN {<<>>}
    ELSE LiveStreams(n - 1) \cup {f \o t : f \in LiveFrames, t \in LiveStreams(n - 1)}

ServerLiveInit == ServerStart(LiveStreams(MaxFrames))

\* a loop that reads again after read_message returned None
on_end_of_stream_continue == "read"

\* server.py 106-107: if message is None: break
on_end_of_stream == "stopped"

\* server.py 104-120, one pass of the loop up to the call of handle_request
main ==
    /\ UNCHANGED <<pipe_vars, harness_vars>>
    /\ pc = "read"
    /\ LET r == read_message(stream, pos)
       IN /\ pos' = r.pos
          /\ IF r.out = "None"
               THEN /\ pc' = on_end_of_stream
                    /\ stop_cause' = r.cause
                    /\ UNCHANGED <<cur, log, dispatched>>
             ELSE IF r.out \in {"JSONDecodeError", "ValueError", "array"}
               THEN /\ log' = Append(log, on_exception(r.out).log)
                    /\ pc' = on_exception(r.out).pc
                    /\ UNCHANGED <<cur, dispatched, stop_cause>>
             ELSE /\ cur' = r.msg
                  /\ dispatched' = Append(dispatched, r.msg.id)
                  /\ pc' = "handle"
                  /\ UNCHANGED <<log, stop_cause>>
    /\ UNCHANGED <<stream, responses, invoked, last_raise, wire, syntax_check>>

\* what the body of the try block does before it writes:
\*   result     the handler is called and returns a result that serializes
\*   raise      the handler is called and raises
\*   dumps      the handler returns, json.dumps of the result raises
\*   badparams  building the handler's arguments raises (params.get on a
\*              non-mapping, GenerateTestParams(**params)); no handler called
HandlerOutcomes(m) ==
    IF m.method \notin KnownMethods THEN {[kind |-> "unknown", msg |-> ""]}
    ELSE IF m.params # "dict" THEN {[kind |-> "badparams", msg |-> "object has no attribute 'get'"]}
    ELSE {[kind |-> "result", msg |-> ""],
          [kind |-> "raise", msg |-> "handler failed"],
          [kind |-> "dumps", msg |-> "not JSON serializable"]}
         \cup (IF m.method = "generate_tests"
                 THEN {[kind |-> "badparams", msg |-> "validation error"]} ELSE {})

handle_request ==
    /\ UNCHANGED <<pipe_vars, harness_vars>>
    /\ pc = "handle"
    /\ \E o \in HandlerOutcomes(cur) :
         /\ LET envelope ==
                  IF o.kind = "result" THEN send_response(cur.id, "result", NoError)
                  ELSE IF o.kind = "unknown"
                    THEN send_response(cur.id, None,
                                       ErrorObject(MethodNotFound, "Method not found: ", cur.method))
                  ELSE send_response(cur.id, None, ErrorObject(InternalError, o.msg, ""))
            IN /\ responses' = stdout_write(responses, envelope)
               /\ wire' = wire \o <<WriteCall(envelope), FlushCall>>
         /\ IF o.kind = "result" /\ cur.method = "validate_syntax"
              THEN \E code \in Codes :
                     syntax_check' = [code |-> code, result |-> validate_python_syntax(code)]
            ELSE UNCHANGED syntax_check
         /\ invoked' = IF o.kind \in {"result", "raise", "dumps"}
                         THEN Append(invoked, cur.method) ELSE invoked
         /\ last_raise' = o.msg
    /\ pc' = "read"
    /\ cur' = NoBody
    /\ UNCHANGED <<stream, pos, log, dispatched, stop_cause>>

ServerNext == main \/ handle_request
ServerSpec == ServerInit /\ [][ServerNext]_vars

\* the loop is the only thread: while it can take a step it takes one
ServerLiveSpec ==
    ServerLiveInit /\ [][ServerNext]_vars /\ WF_vars(main) /\ WF_vars(handle_request)

\* ------------------------------------------------------------ harness
(***************************************************************************)
(* Runner output is text over the words                                    *)
(*   "t::a" "t::b" test ids    "PASSED" "FAILED" "ERROR" "SKIPPED" markers *)
(*   "[50%]" progress          "===" "___" divider runs      "x" other     *)
(* with "W" the line end; words of one line are separated by one space.    *)
(***************************************************************************)
Markers == {"PASSED", "FAILED", "ERROR", "SKIPPED"}

OutputLines == {
    <<"t::a", "PASSED">>,
    <<"t::b", "FAILED", "[50%]">>,
    <<"t::b", "ERROR">>,
    <<"t::a", "SKIPPED">>,
    <<"FAILED", "t::b", "x">>,
    <<"===", "x", "===">>,
    <<"___", "t::b", "___">>,
    <<"x", "ERROR", "x">>,
    <<"x">> }

RECURSIVE Outputs(_)
Outputs(n) ==
    IF n = 0 THEN {<<>>}
    ELSE Outputs(n - 1) \cup {l \o <<"W">> \o o : l \in OutputLines, o \in Outputs(n - 1)}

\* an output longer than the error text the parser keeps, without a line end
LongText == [i \in 1..LongLen |-> "x"]

Stdouts == Outputs(MaxLines) \cup {LongText}

Stderrs == {<<>>, <<"x", "W">>, LongText}

\* str.splitlines()
splitlines(s) ==
    IF s = <<>> THEN <<>>
    ELSE IF s[Len(s)] = "W" THEN Lines(SubSeq(s, 1, Len(s) - 1))
    ELSE Lines(s)

\* index of the first occurrence of " <marker>" in a stripped line, 0 if none
FindMarker(line, marker) ==
    LET hits == {i \in 2..Len(line) : line[i] = marker}
    IN IF hits = {} THEN 0 ELSE CHOOSE i \in hits : \A j \in hits : i <= j

\* test_name in line
Contains(line, name) ==
    \E i \in 1..(Len(line) - Len(name) + 1) : SubSeq(line, i, i + Len(name) - 1) = name

HasWord(line, w) == \E i \in 1..Len(line) : line[i] = w

\* line.startswith(c) and line.endswith(c), c being "_" or "="
Divider(line) ==
    /\ line # <<>>
    /\ \/ Head(line) = "___" /\ line[Len(line)] = "___"
       \/ Head(line) = "===" /\ line[Len(line)] = "==="

\* pytest_runner.py 257-268: the loop of extract_failure_message
RECURSIVE FailureLines(_, _, _)
FailureLines(lines, name, in_failure) ==
    IF lines = <<>> THEN <<>>
    ELSE LET line == Head(lines)
         IN IF Contains(line, name) /\ (HasWord(line, "FAILED") \/ HasWord(line, "ERROR"))
              THEN FailureLines(Tail(lines), name, TRUE)
            ELSE IF in_failure
              THEN IF Divider(line) THEN <<>>
                   ELSE <<line>> \o FailureLines(Tail(lines), name, TRUE)
            ELSE FailureLines(Tail(lines), name, FALSE)

Take(s, n) == SubSeq(s, 1, IF Len(s) < n THEN Len(s) ELSE n)

extract_failure_message(output, test_name) ==
    Take(FailureLines(splitlines(output), test_name, FALSE), 10)

Outcome(name, outcome, has_message, message, has_traceback) ==
    [name |-> name, outcome |-> outcome, has_message |-> has_message, message |-> message,
     has_traceback |-> has_traceback]

\* pytest_runner.py 195-229: the outcomes one output line adds
LineOutcome(line, stdout) ==
    LET p == FindMarker(line, "PASSED")
        f == FindMarker(line, "FAILED")
        e == FindMarker(line, "ERROR")
        k == FindMarker(line, "SKIPPED")
    IN IF p # 0 THEN <<Outcome(SubSeq(line, 1, p - 1), "passed", FALSE, <<>>, FALSE)>>
       ELSE IF f # 0
         THEN <<Outcome(SubSeq(line, 1, f - 1), "failed", TRUE,
                        extract_failure_message(stdout, SubSeq(line, 1, f - 1)), FALSE)>>
       ELSE IF e # 0
         THEN <<Outcome(SubSeq(line, 1, e - 1), "error", TRUE,
                        extract_failure_message(stdout, SubSeq(line, 1, e - 1)), FALSE)>>
       ELSE IF k # 0 THEN <<Outcome(SubSeq(line, 1, k - 1), "skipped", FALSE, <<>>, FALSE)>>
       ELSE <<>>

RECURSIVE LineOutcomes(_, _)
LineOutcomes(lines, stdout) ==
    IF lines = <<>> THEN <<>>
    ELSE LineOutcome(Head(lines), stdout) \o LineOutcomes(Tail(lines), stdout)

CountOutcomes(outcomes, kinds) ==
    Cardinality({i \in 1..Len(outcomes) : outcomes[i].outcome \in kinds})

\* a parser that reports the whole output as the error
parse_pytest_output_untruncated(stdout, stderr, returncode) ==
    LET outcomes == LineOutcomes(splitlines(stdout), stdout)
        error_msg == IF stderr # <<>> THEN stderr ELSE stdout
    IN IF outcomes = <<>> /\ returncode # 0
         THEN ErrorResult(IF error_msg # <<>> THEN Err("output", error_msg)
                          ELSE Err("output", <<"Unknown error">>))
       ELSE RunResult(outcomes, Len(outcomes), CountOutcomes(outcomes, {"passed"}),
                      CountOutcomes(outcomes, {"failed", "error"}), NoErr)

parse_pytest_output(stdout, stderr, returncode) ==
    LET outcomes == LineOutcomes(splitlines(stdout), stdout)
        error_msg == IF stderr # <<>> THEN stderr ELSE stdout
    IN IF outcomes = <<>> /\ returncode # 0
         THEN ErrorResult(IF error_msg # <<>> THEN Err("output", Take(error_msg, 500))
                          ELSE Err("output", <<"Unknown error">>))
       ELSE RunResult(outcomes, Len(outcomes), CountOutcomes(outcomes, {"passed"}),
                      CountOutcomes(outcomes, {"failed", "error"}), NoErr)

\* ---- structured report
\* dict.get(key, default)
Get(v, default) == IF v = Absent THEN default ELSE v

\* a test case of the report: nodeid, outcome, call.longrepr, call.crash.message
ReportTests == {
    [nodeid |-> "t::a", outcome |-> "passed", longrepr |-> FALSE, crash |-> FALSE],
    [nodeid |-> "t::b", outcome |-> "failed", longrepr |-> TRUE, crash |-> TRUE],
    [nodeid |-> None, outcome |-> None, longrepr |-> FALSE, crash |-> FALSE] }

RECURSIVE TestLists(_)
TestLists(n) ==
    IF n = 0 THEN {<<>>}
    ELSE TestLists(n - 1) \cup {<<t>> \o l : t \in ReportTests, l \in TestLists(n - 1)}

Summaries == [total : {Absent, 1, 2}, passed : {Absent, 1, 2},
              failed : {Absent, 1, 2}, error : {Absent, 1, 2}]

Reports == [tests : TestLists(MaxTests), summary : Summaries]

\* pytest_runner.py 157-170: the outcome built for one reported test
TestOutcome(test) ==
    Outcome(IF test.nodeid = None THEN <<"unknown">> ELSE <<test.nodeid>>,
            IF test.outcome = None THEN "error" ELSE test.outcome,
            test.crash,
            IF test.crash THEN <<<<"crash message">>>> ELSE <<>>,
            test.longrepr)

\* a report parser that recounts the failures from the list of tests
parse_json_report_recount(report) ==
    LET outcomes == [i \in 1..Len(report.tests) |-> TestOutcome(report.tests[i])]
    IN RunResult(outcomes,
                 Len(report.tests),
                 CountOutcomes(outcomes, {"passed"}),
                 CountOutcomes(outcomes, {"failed", "error"}),
                 NoErr)

parse_json_report(report) ==
    LET outcomes == [i \in 1..Len(report.tests) |-> TestOutcome(report.tests[i])]
    IN RunResult(outcomes,
                 Get(report.summary.total, Len(report.tests)),
                 Get(report.summary.passed, 0),
                 Get(report.summary.failed, 0) + Get(report.summary.error, 0),
                 NoErr)

\* f"Test path not found: {test_path}"
NotFound == Err("Test path not found: ", <<"test_path">>)

\* what path.exists() does for the given test_path: it answers, or it raises
\* OSError (a name longer than the file system allows)
PathStats == {"True", "False", "OSError"}
TimedOut == Err("Test execution timed out after 60 seconds", <<>>)

\* state of the child after subprocess.run(timeout=60) raised TimeoutExpired
\* in a runner that does not kill it
ChildLeftRunning == "running"

\* subprocess.run kills the child and waits for it before it raises
ChildAfterTimeout == "killed"

\* a cleanup that leaves the report file in place
AfterCleanupKept(file) == file

\* pytest_runner.py 143-148: Path(json_report_path).unlink(missing_ok=True)
AfterCleanup(file) == [file EXCEPT !.state = "removed"]

\* where control goes when the try block is left
AfterTry == IF entry = "run_pytest_with_json_report" THEN "finally" ELSE "returned"

HarnessInit ==
    /\ PipeInit
    /\ api_key = FALSE
    /\ func_name = None
    /\ ServerIdle
    /\ entry \in {"run_pytest", "run_pytest_with_json_report"}
    /\ path_exists \in PathStats
    /\ hpc = "start"
    /\ report_file = NoFile
    /\ child = "none"
    /\ proc = NoProc
    /\ run_result = NoResult
    /\ spawned = 0
    /\ tmp_created = 0

\* a precondition check that is skipped
PathMissingIgnored == FALSE

\* pytest_runner.py 22-23 / 83-84: not path.exists()
PathMissing == path_exists = "False"

\* pytest_runner.py 22 / 83: path.exists() is called outside the try block
CheckPathRaises ==
    /\ UNCHANGED <<pipe_vars, server_vars>>
    /\ hpc = "start"
    /\ path_exists = "OSError"
    /\ hpc' = "raised"
    /\ UNCHANGED <<entry, path_exists, report_file, child, proc, run_result, spawned, tmp_created>>

\* pytest_runner.py 22-30 / 83-91
CheckPath ==
    /\ UNCHANGED <<pipe_vars, server_vars>>
    /\ hpc = "start"
    /\ path_exists # "OSError"
    /\ IF PathMissing
         THEN /\ run_result' = ErrorResult(NotFound)
              /\ hpc' = "returned"
       ELSE /\ hpc' = IF entry = "run_pytest_with_json_report" THEN "mktemp" ELSE "spawn"
            /\ UNCHANGED run_result
    /\ UNCHANGED <<entry, path_exists, report_file, child, proc, spawned, tmp_created>>

\* pytest_runner.py 94-95: NamedTemporaryFile(delete=False) leaves an empty file
CreateTempFile ==
    /\ UNCHANGED <<pipe_vars, server_vars>>
    /\ hpc = "mktemp"
    /\ report_file' = [state |-> "exists", content |-> "empty", report |-> NoReport]
    /\ tmp_created' = tmp_created + 1
    /\ hpc' = "spawn"
    /\ UNCHANGED <<entry, path_exists, child, proc, run_result, spawned>>

\* subprocess.run starts the child
Spawn ==
    /\ UNCHANGED <<pipe_vars, server_vars>>
    /\ hpc = "spawn"
    /\ child' = "running"
    /\ spawned' = spawned + 1
    /\ hpc' = "wait"
    /\ UNCHANGED <<entry, path_exists, report_file, proc, run_result, tmp_created>>

\* subprocess.run raises before a child exists (OSError): except Exception
SpawnFails ==
    /\ UNCHANGED <<pipe_vars, server_vars>>
    /\ hpc = "spawn"
    /\ run_result' = ErrorResult(Err("exception", <<"spawn failed">>))
    /\ hpc' = AfterTry
    /\ UNCHANGED <<entry, path_exists, report_file, child, proc, spawned, tmp_created>>

\* what the child does to the report file before it exits: it writes a
\* report, writes something that is not a JSON object, leaves the empty
\* file alone, or removes it
FileEffects ==
    IF entry = "run_pytest_with_json_report"
      THEN {[state |-> "exists", content |-> "report", report |-> r] : r \in Reports}
             \cup {[state |-> "exists", content |-> c, report |-> NoReport] :
                     c \in {"garbage", "empty"}}
             \cup {[state |-> "removed", content |-> "none", report |-> NoReport]}
    ELSE {NoFile}

\* the child exits within the timeout; what it printed matters only when it
\* wrote no report
ChildExits ==
    /\ UNCHANGED <<pipe_vars, server_vars>>
    /\ hpc = "wait"
    /\ \E f \in FileEffects :
         /\ report_file' = f
         /\ \E out \in (IF f.content \in {"report", "garbage"} THEN {<<>>} ELSE Stdouts),
               err \in Stderrs, rc \in {0, 1} :
              proc' = [stdout |-> out, stderr |-> err, returncode |-> rc]
    /\ child' = "exited"
    /\ hpc' = "parse"
    /\ UNCHANGED <<entry, path_exists, run_result, spawned, tmp_created>>

\* the child is still running after 60 seconds: except TimeoutExpired
Timeout ==
    /\ UNCHANGED <<pipe_vars, server_vars>>
    /\ hpc = "wait"
    /\ child' = ChildAfterTimeout
    /\ run_result' = ErrorResult(TimedOut)
    /\ hpc' = AfterTry
    /\ UNCHANGED <<entry, path_exists, report_file, proc, spawned, tmp_created>>

\* pytest_runner.py 57 / 119-125 and the except Exception clause
ParseResult ==
    /\ UNCHANGED <<pipe_vars, server_vars>>
    /\ hpc = "parse"
    /\ run_result' =
         IF entry = "run_pytest_with_json_report" /\ report_file.state = "exists"
           THEN IF report_file.content = "report" THEN parse_json_report(report_file.report)
                ELSE ErrorResult(Err("exception", <<"JSONDecodeError">>))
         ELSE parse_pytest_output(proc.stdout, proc.stderr, proc.returncode)
    /\ hpc' = AfterTry
    /\ UNCHANGED <<entry, path_exists, report_file, child, proc, spawned, tmp_created>>

\* pytest_runner.py 143-148
Finally ==
    /\ UNCHANGED <<pipe_vars, server_vars>>
    /\ hpc = "finally"
    /\ report_file' = AfterCleanup(report_file)
    /\ hpc' = "returned"
    /\ UNCHANGED <<entry, path_exists, child, proc, run_result, spawned, tmp_created>>

HarnessNext ==
    \/ CheckPathRaises
    \/ CheckPath
    \/ CreateTempFile
    \/ Spawn
    \/ SpawnFails
    \/ ChildExits
    \/ Timeout
    \/ ParseResult
    \/ Finally

HarnessSpec == HarnessInit /\ [][HarnessNext]_vars

\* ============================================================ claims
ConfigError == Msg("GEMINI_API_KEY environment variable not set", 0)

\* C2: with no model credential the run makes no model call, executes
\* GenerateCode exactly once with the retry counter at 0, and returns empty
\* test_code with the configuration-error message as error
C2_NoCredentialSinglePass ==
    ~api_key =>
        /\ llm_calls = 0
        /\ gen_steps <= 1
        /\ retry_count = 0
        /\ (node \in {"END", "raised", "returned"} => gen_steps = 1)
        /\ (node = "returned" => result.test_code = <<>> /\ result.error = ConfigError)

\* C3: when every answer of the model is non-empty invalid code, the run
\* ends after exactly 3 model invocations
C3_ThreeModelCalls ==
    (node \in {"END", "returned"} /\ answers = {"invalid"}) => llm_calls = 3

\* C4: a run that ends with an invalid validation outcome returns the
\* failure shape whose error is the last validation error
C4_FailureShapeOnInvalid ==
    (node = "returned" /\ last_step = "return" /\ ~validation_result.valid) =>
        /\ result = FailureShape(validation_error)
        /\ validation_error # NoneMsg

\* a step of validate_code_node (and its routing)
ValidateStep == node = "validate_code" /\ step' = step + 1

\* C5: ValidateCode on empty code records 'No code generated', leaves the
\* retry counter unchanged and is followed by the terminal state
C5_EmptyCodeTerminal ==
    [][(ValidateStep /\ generated_code = <<>>) =>
          /\ validation_error' = NoCodeGenerated
          /\ ~validation_result'.valid
          /\ retry_count' = retry_count
          /\ node' = "END"]_vars

SyntaxErrorStep ==
    /\ ValidateStep
    /\ generated_code # <<>>
    /\ ~ast_parse(generated_code).ok

\* a step within one run of the pipeline
SameRun == earlier_runs' = earlier_runs

\* C6: within a run the retry counter stays within 0..2, never decreases, is
\* incremented (by exactly 1) by the ValidateCode steps that find a syntax
\* error and by no other step, and is left alone by ValidateCode on empty code
C6_RetryCounter ==
    /\ retry_count = 0
    /\ [][/\ retry_count' \in 0..2
          /\ (SameRun => retry_count' >= retry_count)
          /\ ((SameRun /\ retry_count' # retry_count) => SyntaxErrorStep)
          /\ (SyntaxErrorStep => retry_count' = retry_count + 1)
          /\ (ValidateStep /\ generated_code = <<>> => retry_count' = retry_count)]_vars

\* a run that saw empty code and two syntax errors
C6_Witness ==
    /\ retry_count = 2
    /\ node = "END"
    /\ answers = {"empty", "invalid"}

\* C7: a run executes GenerateCode at most 3 times, whatever the model returns
C7_AtMostThreeGenerateSteps == gen_steps <= 3

RECURSIVE CountId(_, _)
CountId(ids, i) ==
    IF ids = <<>> THEN 0
    ELSE (IF Head(ids) = i THEN 1 ELSE 0) + CountId(Tail(ids), i)

ResponseIds == [k \in 1..Len(responses) |-> responses[k].id]

Distinct(ids) ==
    \A a, b \in 1..Len(ids) : (a # b /\ ids[a] # None) => ids[a] # ids[b]

\* C1: every decoded request with an id gets exactly one response with that
\* id once its handler has run (returned or raised), never more, and request
\* ids that are distinct stay distinct in the output
C1_OneResponsePerRequest ==
    /\ \A i \in Ids \ {None} :
          CountId(ResponseIds, i) =
              CountId(dispatched, i) - (IF pc = "handle" /\ cur.id = i THEN 1 ELSE 0)
    /\ Distinct(dispatched) => Distinct(ResponseIds)

\* two requests answered, one by a result and one by an internal error
C1_Witness ==
    /\ pc = "read"
    /\ Len(responses) = 2
    /\ {responses[1].id, responses[2].id} = {"1", "2"}
    /\ \E k \in 1..2 : responses[k].kind = "result"
    /\ \E k \in 1..2 : responses[k].code = InternalError

\* C8: the loop stops only on end-of-stream
C8_StopsOnlyOnEndOfStream == pc = "stopped" => stop_cause = "eof"

\* C9: a body that fails to decode produces no response and no dispatch,
\* one log entry, and the loop goes on reading
C9_DecodeFailureDropped ==
    [][(pc = "read" /\ read_message(stream, pos).out = "JSONDecodeError") =>
          /\ responses' = responses
          /\ Len(log') = Len(log) + 1
          /\ dispatched' = dispatched
          /\ pc' = "read"
          /\ pos' > pos]_vars

\* an undecodable body was dropped and the request after it was answered
C9_Witness ==
    /\ log = <<"JSON decode error">>
    /\ Len(responses) = 1
    /\ pc = "read"

\* C10: one request in flight at a time: the responses written are, in
\* order, the answers to the requests read
C10_InOrderOneAtATime ==
    /\ Len(dispatched) = Len(responses) + (IF pc = "handle" THEN 1 ELSE 0)
    /\ \A k \in 1..Len(responses) : responses[k].id = dispatched[k]

\* the second request is being handled after the first one was answered
C10_Witness ==
    /\ pc = "handle"
    /\ Len(responses) = 1
    /\ Len(dispatched) = 2
    /\ dispatched[1] # dispatched[2]

\* C11: a request whose method is none of parse_file, generate_tests,
\* run_tests, validate_syntax (a missing method included) is answered by an
\* error with code -32601 and no result, and no handler is invoked
C11_UnknownMethod ==
    [][(pc = "handle" /\ pc' = "read" /\
        cur.method \notin {"parse_file", "generate_tests", "run_tests", "validate_syntax"}) =>
          /\ responses' = Append(responses,
                [id |-> cur.id, kind |-> "error", code |-> -32601,
                 message |-> [text |-> "Method not found: ", arg |-> cur.method]])
          /\ invoked' = invoked]_vars

\* a request without a method and one with an unknown method were refused
C11_Witness ==
    /\ Len(responses) = 2
    /\ \A k \in 1..2 : responses[k].code = -32601 /\ responses[k].kind = "error"
    /\ {responses[1].message.arg, responses[2].message.arg} = {"", "bogus"}
    /\ invoked = <<>>

\* C12: when something raises while a known method is handled, the request
\* gets exactly one response, an error with code -32603 and the exception's
\* message and no result, and the loop goes on
C12_HandlerException ==
    [][(pc = "handle" /\ pc' = "read" /\ last_raise' # "") =>
          /\ responses' = Append(responses,
                [id |-> cur.id, kind |-> "error", code |-> -32603,
                 message |-> [text |-> last_raise', arg |-> ""]])
          /\ cur.method \in {"parse_file", "generate_tests", "run_tests", "validate_syntax"}]_vars

\* a handler raised, and the request after it was answered with a result
C12_Witness ==
    /\ Len(responses) = 2
    /\ responses[1].code = -32603
    /\ responses[1].message.text = "handler failed"
    /\ responses[2].kind = "result"
    /\ pc = "read"

\* C13: no exception raised in the generation pipeline (graph construction,
\* analysis, context gathering, model call, extraction, validation) leaves
\* generate_tests_for_function; each is turned into the failure shape
C13_NoExceptionEscapes ==
    /\ node # "propagated"
    /\ (node = "returned" /\ exc # NoneMsg => result = FailureShape(exc))

\* C14: AnalyzeFunction and GatherContext run exactly once, before the first
\* GenerateCode step, and what they stored is not changed by any later
\* GenerateCode or ValidateCode step
C14_ContextGatheredOnce ==
    /\ [](/\ analyze_count <= 1
          /\ gather_count <= 1
          /\ (gen_steps >= 1 => analyze_count = 1 /\ gather_count = 1))
    /\ [][(node \in {"generate_tests", "validate_code"}) =>
            (project_context' = project_context /\ import_analysis' = import_analysis)]_vars

\* a run that went back to GenerateCode after a syntax error
C14_Witness ==
    /\ gen_steps = 2
    /\ retry_count = 1
    /\ analyze_count = 1
    /\ gather_count = 1
    /\ project_context = "context"
    /\ import_analysis = "analysis"

NumImports(code) == Cardinality({i \in 1..Len(code) : code[i] = "I"})

\* C15: after a valid validation outcome generate_tests returns the last
\* generated code as test_code, "test_" + the function's name, the import
\* statements of that code, and no error
C15_SuccessShape ==
    (node = "returned" /\ last_step = "return" /\ validation_result.valid) =>
        /\ result.test_code = generated_code
        /\ (func_name = "add" => result.test_function_name = "test_add")
        /\ (func_name = "sub" => result.test_function_name = "test_sub")
        /\ Len(result.imports) = NumImports(generated_code)
        /\ \A k \in 1..Len(result.imports) : result.imports[k] = "import os"
        /\ result.error = NoneMsg

\* valid code with an import line was returned for the function sub
C15_Witness ==
    /\ node = "returned"
    /\ validation_result.valid
    /\ func_name = "sub"
    /\ result.test_code = <<"I", "W", "G">>
    /\ result.imports = <<"import os">>


\* ------------------------------------------------------------ harness claims
\* C16: a run on a path that does not exist returns no outcomes, total,
\* passed and failed 0 and an error naming the path, without a child process
\* and without a temporary file, from either entry point
C16_MissingPath ==
    (hpc = "returned" /\ path_exists = "False") =>
        /\ run_result = [outcomes |-> <<>>, total |-> 0, passed |-> 0, failed |-> 0,
                         error |-> [kind |-> "Test path not found: ", text |-> <<"test_path">>]]
        /\ spawned = 0
        /\ child = "none"
        /\ tmp_created = 0
        /\ report_file.state = "none"

C16_Witness ==
    /\ hpc = "returned"
    /\ path_exists = "False"
    /\ entry = "run_pytest_with_json_report"
    /\ run_result.error.text = <<"test_path">>
    /\ spawned = 0
    /\ tmp_created = 0

ErrorMeansNoOutcomes ==
    run_result.error.kind \notin {"none", "unset"} =>
        /\ run_result.outcomes = <<>>
        /\ run_result.total = 0 /\ run_result.passed = 0 /\ run_result.failed = 0

\* C19: the harness never raises past its boundary: for every input path and
\* every behaviour of the runner the call returns a RunResult, and a RunResult
\* whose top-level error is set has no outcomes and counts of 0
C19_NeverRaises ==
    /\ hpc # "raised"
    /\ hpc = "returned" => (run_result.error.kind # "unset" /\ ErrorMeansNoOutcomes)

\* C20: parsing a structured report gives one outcome per reported test, in
\* report order; total is the summary's total, else the number of tests;
\* passed is the summary's passed; failed is the summary's failed plus error
C20_ReportParsing ==
    (hpc \in {"finally", "returned"} /\ report_file.content = "report") =>
        LET r == report_file.report
            sum(v, d) == IF v = -1 THEN d ELSE v
        IN /\ Len(run_result.outcomes) = Len(r.tests)
           /\ \A i \in 1..Len(r.tests) :
                /\ run_result.outcomes[i].name =
                     (IF r.tests[i].nodeid = "None" THEN <<"unknown">> ELSE <<r.tests[i].nodeid>>)
                /\ run_result.outcomes[i].outcome =
                     (IF r.tests[i].outcome = "None" THEN "error" ELSE r.tests[i].outcome)
           /\ run_result.total = sum(r.summary.total, Len(r.tests))
           /\ run_result.passed = sum(r.summary.passed, 0)
           /\ run_result.failed = sum(r.summary.failed, 0) + sum(r.summary.error, 0)
           /\ run_result.error.kind = "none"

C20_Witness ==
    /\ hpc = "returned"
    /\ report_file.content = "report"
    /\ Len(report_file.report.tests) = 2
    /\ report_file.report.tests[1].nodeid = "t::b"
    /\ report_file.report.tests[2].nodeid = "None"
    /\ report_file.report.summary = [total |-> 1, passed |-> -1, failed |-> 1, error |-> 1]
    /\ run_result.total = 1
    /\ run_result.passed = 0
    /\ run_result.failed = 2
    /\ run_result.outcomes[2].name = <<"unknown">>

\* ------------------------------------------------------------ text parsing claims
\* the result of the call came from parsing the runner's text output
TextParsed ==
    /\ hpc \in {"finally", "returned"}
    /\ child = "exited"
    /\ report_file.content = "none"

EndsInMarker(line) ==
    line # <<>> /\ line[Len(line)] \in {"PASSED", "FAILED", "ERROR", "SKIPPED"}

StatusOf(marker) ==
    CASE marker = "PASSED" -> "passed"
      [] marker = "FAILED" -> "failed"
      [] marker = "ERROR" -> "error"
      [] marker = "SKIPPED" -> "skipped"

\* the lines of the output that end in a marker, in order
RECURSIVE MarkerLines(_)
MarkerLines(lines) ==
    IF lines = <<>> THEN <<>>
    ELSE (IF EndsInMarker(Head(lines)) THEN <<Head(lines)>> ELSE <<>>)
           \o MarkerLines(Tail(lines))

\* C21: text parsing gives one outcome for each output line that ends in
\* PASSED, FAILED, ERROR or SKIPPED and for no other line; the status is that
\* of the marker and the name is the line up to the marker
C21_OutcomePerMarkerLine ==
    (TextParsed /\ run_result.error.kind = "none") =>
        LET ml == MarkerLines(splitlines(proc.stdout))
        IN /\ Len(run_result.outcomes) = Len(ml)
           /\ \A i \in 1..Len(ml) :
                /\ run_result.outcomes[i].name = SubSeq(ml[i], 1, Len(ml[i]) - 1)
                /\ run_result.outcomes[i].outcome = StatusOf(ml[i][Len(ml[i])])

\* the output has a line in which a marker follows other text
HasOutcomeLine(stdout) ==
    \E i \in 2..Len(stdout) :
        stdout[i] \in {"PASSED", "FAILED", "ERROR", "SKIPPED"} /\ stdout[i - 1] # "W"

First500(text) == SubSeq(text, 1, IF Len(text) < 500 THEN Len(text) ELSE 500)

NoOutcomesNoCounts ==
    /\ run_result.outcomes = <<>>
    /\ run_result.total = 0 /\ run_result.passed = 0 /\ run_result.failed = 0

\* C22 as stated: with no outcome line and a non-zero exit status the result
\* has no outcomes, counts of 0 and as error the first 500 characters of
\* stderr, or of stdout when stderr is empty; with an outcome line or exit
\* status 0 no error is set
C22_ErrorFromOutput ==
    TextParsed =>
        IF proc.returncode # 0 /\ ~HasOutcomeLine(proc.stdout)
          THEN /\ NoOutcomesNoCounts
               /\ run_result.error.kind = "output"
               /\ run_result.error.text =
                    First500(IF proc.stderr # <<>> THEN proc.stderr ELSE proc.stdout)
        ELSE run_result.error.kind = "none"

\* C22 amended: as stated, except that the error is the text "Unknown error"
\* when stderr and stdout are both empty
C22_ErrorFromOutputOrUnknown ==
    TextParsed =>
        IF proc.returncode # 0 /\ ~HasOutcomeLine(proc.stdout)
          THEN /\ NoOutcomesNoCounts
               /\ run_result.error.kind = "output"
               /\ run_result.error.text =
                    (IF proc.stderr # <<>> THEN First500(proc.stderr)
                     ELSE IF proc.stdout # <<>> THEN First500(proc.stdout)
                     ELSE <<"Unknown error">>)
        ELSE run_result.error.kind = "none"

C22_Witness ==
    /\ TextParsed
    /\ hpc = "returned"
    /\ proc.returncode = 1
    /\ proc.stdout = <<"x", "W">>
    /\ Len(proc.stderr) > 500
    /\ Len(run_result.error.text) = 500

\* the line gives an outcome: a marker follows other text in it
IsOutcomeLine(line) ==
    \E i \in 2..Len(line) : line[i] \in {"PASSED", "FAILED", "ERROR", "SKIPPED"}

\* positions of the outcome lines of the output, in order, from position k on
RECURSIVE OutcomeLineIdx(_, _)
OutcomeLineIdx(lines, k) ==
    IF k > Len(lines) THEN <<>>
    ELSE (IF IsOutcomeLine(lines[k]) THEN <<k>> ELSE <<>>) \o OutcomeLineIdx(lines, k + 1)

IsDivider(line) ==
    /\ line # <<>>
    /\ \E d \in {"===", "___"} : line[1] = d /\ line[Len(line)] = d

\* the lines from position k on, up to the first divider
RECURSIVE RunUntilDivider(_, _)
RunUntilDivider(lines, k) ==
    IF k > Len(lines) \/ IsDivider(lines[k]) THEN <<>>
    ELSE <<lines[k]>> \o RunUntilDivider(lines, k + 1)

\* C23: the message of a FAILED or ERROR outcome is the run of output lines
\* after the line naming that test with its marker, up to the first divider
\* line, and has at most 10 lines
C23_FailureMessage ==
    (TextParsed /\ run_result.error.kind = "none") =>
        LET lines == splitlines(proc.stdout)
            idx == OutcomeLineIdx(lines, 1)
        IN \A i \in 1..Len(run_result.outcomes) :
             run_result.outcomes[i].outcome \in {"failed", "error"} =>
                 /\ i <= Len(idx)
                 /\ run_result.outcomes[i].message = RunUntilDivider(lines, idx[i] + 1)
                 /\ Len(run_result.outcomes[i].message) <= 10

\* ------------------------------------------------------------ extraction claim
FirstIn(S) == IF S = {} THEN 0 ELSE CHOOSE i \in S : \A j \in S : i <= j

Trimmed(t) ==
    LET keep == {i \in 1..Len(t) : t[i] # "W"}
    IN IF keep = {} THEN <<>>
       ELSE SubSeq(t, FirstIn(keep), CHOOSE i \in keep : \A j \in keep : j <= i)

\* what the claim gives for a raw text: the inner text of the tagged block,
\* else of the first untagged block, else the text, trimmed
ExpectedCode(text) ==
    LET open == FirstIn({i \in 1..(Len(text) - 1) : text[i] = "F" /\ text[i + 1] = "P"})
        close == FirstIn({i \in (open + 2)..Len(text) : text[i] = "F"})
        uopen == FirstIn({i \in 1..Len(text) : text[i] = "F"})
        uclose == FirstIn({i \in (uopen + 1)..Len(text) : text[i] = "F"})
    IN IF open # 0 /\ close # 0 THEN Trimmed(SubSeq(text, open + 2, close - 1))
       ELSE IF uopen # 0 /\ uclose # 0 THEN Trimmed(SubSeq(text, uopen + 1, uclose - 1))
       ELSE Trimmed(text)

\* C24: the code extracted from the model's text is the trimmed inner text of
\* the block tagged for the language (empty when the block is empty), also when
\* an untagged block comes first; else that of the first untagged block; else
\* the trimmed text
C24_CodeExtraction ==
    last_step = "generate_llm" => generated_code = ExpectedCode(response_content)

\* ------------------------------------------------------------ framing claim
\* C25: every response is one write of a complete frame followed by one
\* flush: the header's content length is the length in bytes of the body,
\* nothing follows the body, and the body has exactly one of result and error
C25_FramedResponses ==
    /\ Len(wire) = 2 * Len(responses)
    /\ \A k \in 1..Len(responses) :
         /\ wire[2 * k - 1].op = "write"
         /\ wire[2 * k].op = "flush"
         /\ wire[2 * k - 1].length = Len(wire[2 * k - 1].body)
         /\ wire[2 * k - 1].tail = <<>>
         /\ Cardinality(wire[2 * k - 1].keys \cap {"result", "error"}) = 1
         /\ ("error" \in wire[2 * k - 1].keys) = (responses[k].kind = "error")

C25_Witness ==
    /\ Len(responses) = 2
    /\ responses[1].kind = "result"
    /\ responses[2].message.arg = "b_gus"
    /\ wire[1].keys = {"jsonrpc", "id", "result"}
    /\ wire[3].length = 13
    /\ Len(wire[3].body) = 13
    /\ wire[4].op = "flush"

\* ------------------------------------------------------------ validate_syntax claim
\* the lines of the code the parser rejects
BadLines(code) == {i \in 1..Len(Lines(code)) : Lines(code)[i] \notin {<<>>, <<"G">>, <<"I">>, <<"P">>}}

\* C26: validate_syntax returns valid true, without error and line, for code
\* that parses; valid false with error and the parser's offending line for
\* code with a syntax error; for non-empty code it is valid exactly when the
\* pipeline's ValidateCode step finds the code valid
C26_ValidateSyntax ==
    syntax_check.code # <<"None">> =>
        LET code == syntax_check.code
            r == syntax_check.result
            bad == BadLines(code)
        IN /\ bad = {} => (r.valid /\ r.keys = {"valid"})
           /\ bad # {} => /\ ~r.valid
                          /\ r.keys = {"valid", "error", "line"}
                          /\ r.line \in bad
                          /\ \A j \in bad : r.line <= j
           /\ code # <<>> => (r.valid = validate_code(code, 0).vr.valid)

C26_Witness ==
    /\ syntax_check.code = <<"I", "W", "G", "W", "B", "W", "B">>
    /\ ~syntax_check.result.valid
    /\ syntax_check.result.line = 3
    /\ Len(responses) = 1
    /\ responses[1].kind = "result"

\* ------------------------------------------------------------ termination claim
\* C27: for every finite input the loop eventually stops reading, and once it
\* has stopped no handler is dispatched and no response is written
C27_TerminatesOnEndOfStream ==
    /\ <>(pc = "stopped")
    /\ [][pc = "stopped" =>
            /\ pc' = "stopped"
            /\ pos' = pos
            /\ dispatched' = dispatched
            /\ invoked' = invoked
            /\ responses' = responses
            /\ wire' = wire]_vars

C27_Witness ==
    /\ pc = "stopped"
    /\ stop_cause = "eof"
    /\ pos > Len(stream)
    /\ Len(dispatched) = 2
    /\ Len(responses) = 2

\* ------------------------------------------------------------ routing claims
\* C28: after ValidateCode a valid outcome leads to the terminal state and no
\* GenerateCode step follows it, an invalid outcome with retry counter < 2
\* leads to GenerateCode, and an invalid outcome with counter >= 2 leads to
\* the terminal state
C28_Routing ==
    /\ [][ValidateStep =>
            IF validation_result'.valid THEN node' = "END"
            ELSE IF retry_count' < 2 THEN node' = "generate_tests"
            ELSE node' = "END"]_vars
    /\ [][(validation_result.valid /\ earlier_runs' = earlier_runs) =>
            (gen_steps' = gen_steps /\ llm_calls' = llm_calls)]_vars

C28_Witness ==
    /\ node = "END"
    /\ last_step = "validate_syntax_error"
    /\ ~validation_result.valid
    /\ retry_count = 2
    /\ gen_steps = 2

\* a GenerateCode step that builds a prompt
PromptStep == node = "generate_tests" /\ llm_calls' = llm_calls + 1

\* C29: the prompt of a GenerateCode step that follows a ValidateCode step
\* contains the validation error that step recorded; the prompt of the first
\* GenerateCode step of a run contains no retry context
C29_RetryContext ==
    [][PromptStep =>
         /\ prompt'.built
         /\ IF gen_steps = 0 THEN prompt'.retry_context = NoneMsg
            ELSE validation_error # NoneMsg /\ prompt'.retry_context = validation_error]_vars

\* ------------------------------------------------------------ report fallback claim
\* C30: in the structured-report entry point, when the runner exits without
\* having written a report, the result is the one text parsing gives for the
\* runner's stdout, stderr and exit status, not an error result
C30_TextFallback ==
    (/\ entry = "run_pytest_with_json_report"
     /\ hpc \in {"finally", "returned"}
     /\ child = "exited"
     /\ report_file.content \in {"empty", "none"}) =>
        run_result = parse_pytest_output(proc.stdout, proc.stderr, proc.returncode)

\* ------------------------------------------------------------ request isolation claim
\* C31: every run of the pipeline in one process starts with retry counter 0,
\* no generated code, no validation outcome and no gathered context, whatever
\* the earlier runs left behind
C31_FreshStatePerRequest ==
    [][Len(earlier_runs') > Len(earlier_runs) =>
         /\ retry_count' = 0
         /\ generated_code' = <<"None">>
         /\ validation_result' = [isNone |-> TRUE, valid |-> FALSE, error |-> NoneMsg]
         /\ validation_error' = NoneMsg
         /\ project_context' = "empty"
         /\ import_analysis' = "empty"
         /\ exc' = NoneMsg
         /\ ~result'.set
         /\ node' = "create_graph"
         /\ step' = 0]_vars

\* a second run that succeeded at once after a run that used both retries
C31_Witness ==
    /\ Len(earlier_runs) = 1
    /\ earlier_runs[1].retry_count = 2
    /\ node = "returned"
    /\ retry_count = 0
    /\ validation_result.valid
    /\ llm_calls = 1

\* ------------------------------------------------------------ resynchronisation claim
\* frames the reader rejects: the body does not decode, or the content length
\* is not a number or is negative
RejectedFrames ==
    {Frame("len", Garbage)}
        \cup {Frame(c, Object("2", "validate_syntax", "dict")) : c \in {"abc", "-1"}}

\* C32: after a rejected frame the next read starts at the header of the
\* following frame, so a well-formed request that follows it is dispatched
\* and answered with its own id
C32_InSyncAfterRejectedFrame ==
    \A f \in RejectedFrames, r \in Requests :
        (pc = "stopped" /\ stream = f \o Frame("len", r)) =>
            /\ dispatched = <<r.id>>
            /\ Len(responses) = 1
            /\ responses[1].id = r.id

\* ------------------------------------------------------------ notification claim
\* C33: a decoded message without id is dispatched like any request and gets
\* exactly one response, whose id is null; the number of responses written
\* equals the number of decoded object messages read, with or without id
C33_NotificationsAnswered ==
    /\ [](Len(responses) = Len(dispatched) - (IF pc = "handle" THEN 1 ELSE 0))
    /\ [][(pc = "read" /\ read_message(stream, pos).out = "object") =>
            /\ pc' = "handle"
            /\ cur'.id = read_message(stream, pos).msg.id
            /\ Len(dispatched') = Len(dispatched) + 1]_vars
    /\ [][(pc = "handle" /\ cur.id = "None") =>
            /\ Len(responses') = Len(responses) + 1
            /\ responses'[Len(responses')].id = "None"
            /\ Len(wire') = Len(wire) + 2]_vars

\* two notifications answered, one by a result and one by an error
C33_Witness ==
    /\ pc = "stopped"
    /\ stop_cause = "eof"
    /\ dispatched = <<"None", "None">>
    /\ Len(responses) = 2
    /\ responses[1].id = "None" /\ responses[1].kind = "result"
    /\ responses[2].id = "None" /\ responses[2].kind = "error"

====
